---------------------------- MODULE Spec2Model ----------------------------
(***************************************************************************)
(* AP Navigator: the location search boxes, the sidebar's route            *)
(* calculation and the map view, as a state machine.                       *)
(*                                                                         *)
(* Numbers.  The program computes in IEEE doubles; the model computes in   *)
(* decimal fixed point on 32-bit integers.  A coordinate is held in        *)
(* micro-degrees (DEG units per degree), a distance in units of 1/KM km,   *)
(* and a dimensionless number or an angle in radians in units of 1/ONE.    *)
(* MulFix(a, b) is a * b / ONE, so it multiplies a value of any scale by   *)
(* a value of scale ONE and keeps the first one's scale.                   *)
(***************************************************************************)
EXTENDS Integers, Sequences, FiniteSets, Bags, TLC

\* null, for a variable that otherwise holds an object (a record).
NULL == [null |-> TRUE]

\* route when null.  Every read of route is `route && route.length > 0`,
\* which takes null and the empty array alike: both are the empty sequence.
NoRoute == << >>

\* focused when no search input has the focus.
NoFocus == "none"

(***************************************************************************)
(* Fixed-point arithmetic                                                  *)
(***************************************************************************)
BASE == 100 * 100
ONE == BASE * BASE
DEG == 100 * BASE
KM == BASE

Abs(x) == IF x < 0 THEN -x ELSE x

Sign(x) == IF x < 0 THEN -1 ELSE 1

\* a * b / ONE rounded to nearest, computed in halves of BASE so that no
\* intermediate product leaves 32 bits.
MulFix(a, b) ==
    LET x == Abs(a)
        y == Abs(b)
        xh == x \div BASE
        xl == x % BASE
        yh == y \div BASE
        yl == y % BASE
        low == (xl * yl + BASE \div 2) \div BASE
        mid == (xh * yl + xl * yh + low + BASE \div 2) \div BASE
    IN  Sign(a) * Sign(b) * (xh * yh + mid)

\* a * ONE / b for 0 <= a, 0 < b, by long division, one decimal digit a step.
RECURSIVE DivDigits(_, _, _, _)
DivDigits(r, b, n, acc) ==
    IF n = 0 THEN acc
    ELSE DivDigits((r * 10) % b, b, n - 1, acc * 10 + (r * 10) \div b)

DivFix(a, b) == DivDigits(a % b, b, 8, a \div b)

\* Math.round: the nearest integer, a half rounding up; x has scale `scale`.
Round(x, scale) == (2 * x + scale) \div (2 * scale)

\* Math.floor
Floor(x, scale) == x \div scale

\* Math.PI
PI == 314159265

\* Math.sin by its Taylor series, after the reduction sin(x) = sin(PI - x)
\* for x beyond PI/2 and sin(-x) = -sin(x).
RECURSIVE SinSeries(_, _, _, _)
SinSeries(term, x2, k, acc) ==
    IF term = 0 THEN acc
    ELSE SinSeries(-(MulFix(term, x2) \div ((2 * k) * (2 * k + 1))), x2, k + 1, acc + term)

Sin(x) ==
    LET ax == Abs(x)
        r == IF 2 * ax > PI THEN PI - ax ELSE ax
    IN  Sign(x) * SinSeries(r, MulFix(r, r), 1, 0)

\* Math.cos by its Taylor series, for |x| <= PI/2.
RECURSIVE CosSeries(_, _, _, _)
CosSeries(term, x2, k, acc) ==
    IF term = 0 THEN acc
    ELSE CosSeries(-(MulFix(term, x2) \div ((2 * k - 1) * (2 * k))), x2, k + 1, acc + term)

Cos(x) == CosSeries(ONE, MulFix(x, x), 1, 0)

\* a * b / ONE rounded up, for 0 <= a, 0 <= b.
MulCeil(a, b) ==
    LET xh == a \div BASE
        xl == a % BASE
        yh == b \div BASE
        yl == b % BASE
        low == (xl * yl + BASE - 1) \div BASE
        mid == (xh * yl + xl * yh + low + BASE - 1) \div BASE
    IN  xh * yh + mid

\* Math.sqrt of 0 <= x: the largest y with y * y <= x, by bisection.
RECURSIVE SqrtBisect(_, _, _)
SqrtBisect(x, lo, hi) ==
    IF hi - lo <= 1 THEN lo
    ELSE IF MulCeil((lo + hi) \div 2, (lo + hi) \div 2) <= x
         THEN SqrtBisect(x, (lo + hi) \div 2, hi)
         ELSE SqrtBisect(x, lo, (lo + hi) \div 2)

Sqrt(x) == IF x >= ONE THEN SqrtBisect(x, ONE, x + 1) ELSE SqrtBisect(x, 0, ONE)

\* atan by its Taylor series for |z| <= tan(PI/8), and by
\* atan(z) = PI/4 + atan((z - 1) / (z + 1)) for tan(PI/8) < z <= 1.
RECURSIVE AtanSeries(_, _, _, _)
AtanSeries(power, z2, k, acc) ==
    IF power = 0 THEN acc
    ELSE AtanSeries(-MulFix(power, z2), z2, k + 1, acc + power \div (2 * k - 1))

Atan(z) ==
    IF 5 * z <= 2 * ONE
    THEN AtanSeries(z, MulFix(z, z), 1, 0)
    ELSE PI \div 4 - AtanSeries(DivFix(ONE - z, ONE + z),
                                MulFix(DivFix(ONE - z, ONE + z), DivFix(ONE - z, ONE + z)), 1, 0)

\* Math.atan2(y, x) for y >= 0 and x >= 0, the quadrant calculateRoute uses.
Atan2(y, x) ==
    IF y = 0 THEN 0
    ELSE IF x = 0 THEN PI \div 2
    ELSE IF y <= x THEN Atan(DivFix(y, x))
    ELSE PI \div 2 - Atan(DivFix(x, y))

\* deg * Math.PI / 180: micro-degrees to radians of scale ONE.
Radians(deg) == MulFix(deg * 10, PI) \div 18

Range(s) == {s[i] : i \in DOMAIN s}

(***************************************************************************)
(* Locations and strings                                                   *)
(***************************************************************************)
\* A string is the sequence of its characters.  A Location's lat and lng
\* are written as in the source, in units of 0.0001 degree, and held in
\* micro-degrees.
Location(name, lat4, lng4) ==
    [name |-> name, lat |-> lat4 * (DEG \div BASE), lng |-> lng4 * (DEG \div BASE)]

popularLocations == <<
    Location(<<"V", "i", "s", "a", "k", "h", "a", "p", "a", "t", "n", "a", "m">>, 176868, 832185),
    Location(<<"V", "i", "j", "a", "y", "a", "w", "a", "d", "a">>, 165062, 806480),
    Location(<<"G", "u", "n", "t", "u", "r">>, 163067, 804365),
    Location(<<"T", "i", "r", "u", "p", "a", "t", "i">>, 136288, 794192),
    Location(<<"R", "a", "j", "a", "h", "m", "u", "n", "d", "r", "y">>, 170005, 818040),
    Location(<<"K", "a", "k", "i", "n", "a", "d", "a">>, 169891, 822475),
    Location(<<"N", "e", "l", "l", "o", "r", "e">>, 144426, 799865),
    Location(<<"K", "u", "r", "n", "o", "o", "l">>, 158281, 780373),
    Location(<<"A", "n", "a", "n", "t", "a", "p", "u", "r">>, 146819, 776006),
    Location(<<"K", "a", "d", "a", "p", "a">>, 144674, 788241),
    Location(<<"A", "m", "a", "r", "a", "v", "a", "t", "i">>, 165131, 805167),
    Location(<<"E", "l", "u", "r", "u">>, 167107, 810952),
    Location(<<"O", "n", "g", "o", "l", "e">>, 155057, 800499),
    Location(<<"S", "r", "i", "k", "a", "k", "u", "l", "a", "m">>, 182949, 838935),
    Location(<<"C", "h", "i", "t", "t", "o", "o", "r">>, 132172, 791003) >>

UpperCase == <<"A", "B", "C", "D", "E", "F", "G", "H", "I", "J", "K", "L", "M",
               "N", "O", "P", "Q", "R", "S", "T", "U", "V", "W", "X", "Y", "Z">>

LowerCase == <<"a", "b", "c", "d", "e", "f", "g", "h", "i", "j", "k", "l", "m",
               "n", "o", "p", "q", "r", "s", "t", "u", "v", "w", "x", "y", "z">>

\* The lower-case letter of each upper-case letter.
LowerOf ==
    [c \in Range(UpperCase) |->
        LowerCase[CHOOSE k \in DOMAIN UpperCase : UpperCase[k] = c]]

\* String.prototype.toLowerCase
ToLowerCase(s) ==
    [i \in 1..Len(s) |-> IF s[i] \in DOMAIN LowerOf THEN LowerOf[s[i]] ELSE s[i]]

\* String.prototype.includes
Includes(s, q) ==
    \E k \in 0..(Len(s) - Len(q)) : SubSeq(s, k + 1, k + Len(q)) = q

Registry == Range(popularLocations)

\* loc.name.toLowerCase() of every entry, computed once.
LowerName == [loc \in Registry |-> ToLowerCase(loc.name)]

\* The mutant of filteredLocations that compares the query as typed.
filteredLocationsCaseSensitive(q) ==
    SelectSeq(popularLocations, LAMBDA loc : Includes(LowerName[loc], q))

\* LocationSearch: popularLocations.filter(loc =>
\*   loc.name.toLowerCase().includes(query.toLowerCase()))
filteredLocations(q) ==
    LET lowerQuery == ToLowerCase(q)
    IN  SelectSeq(popularLocations, LAMBDA loc : Includes(LowerName[loc], lowerQuery))

(***************************************************************************)
(* AppSidebar.calculateRoute: the route generator                          *)
(***************************************************************************)
steps == 20

\* Earth's radius in km
R == 6371

\* The mutant of RoutePoint that adds no curve to the latitude.
RoutePointStraight(src, dst, i) ==
    LET t == (i * ONE) \div steps
    IN  <<src.lat + MulFix(dst.lat - src.lat, t), src.lng + MulFix(dst.lng - src.lng, t)>>

\* One pass of the loop body: the point of step index i.
RoutePoint(src, dst, i) ==
    LET t == (i * ONE) \div steps
        curve == Round(MulFix(Sin(MulFix(t, PI)), ONE \div 5), ONE \div DEG)
        lat == src.lat + MulFix(dst.lat - src.lat, t) + curve
        lng == src.lng + MulFix(dst.lng - src.lng, t)
    IN  <<lat, lng>>

\* The mutant of LoopContinues that stops one step early (i < steps).
LoopContinuesExclusive(i) == i < steps

\* for (let i = 0; i <= steps; i++)
LoopContinues(i) == i <= steps

RECURSIVE PointsLoop(_, _, _, _)
PointsLoop(src, dst, i, points) ==
    IF LoopContinues(i)
    THEN PointsLoop(src, dst, i + 1, Append(points, RoutePoint(src, dst, i)))
    ELSE points

\* The points calculateRoute pushes for the pair, as it computes them.
ComputedPoints(src, dst) == PointsLoop(src, dst, 0, <<>>)

\* The mutant of ComputedDistance that leaves the two cosines out of a.
ComputedDistanceFlat(src, dst) ==
    LET dLat == Radians(dst.lat - src.lat)
        dLon == Radians(dst.lng - src.lng)
        a == MulFix(Sin(dLat \div 2), Sin(dLat \div 2))
             + MulFix(Sin(dLon \div 2), Sin(dLon \div 2))
        c == 2 * Atan2(Sqrt(a), Sqrt(ONE - a))
    IN  MulFix(R * KM, c)

\* The Haversine formula as calculateRoute computes it; the result is in
\* units of 1/KM km.
ComputedDistance(src, dst) ==
    LET dLat == Radians(dst.lat - src.lat)
        dLon == Radians(dst.lng - src.lng)
        a == MulFix(Sin(dLat \div 2), Sin(dLat \div 2))
             + MulFix(MulFix(Cos(Radians(src.lat)), Cos(Radians(dst.lat))),
                      MulFix(Sin(dLon \div 2), Sin(dLon \div 2)))
        c == 2 * Atan2(Sqrt(a), Sqrt(ONE - a))
    IN  MulFix(R * KM, c)

\* Both are pure functions of two entries of popularLocations: they are
\* computed once for every pair and looked up afterwards.
PointsTable == [src \in Registry, dst \in Registry |-> ComputedPoints(src, dst)]

DistanceTable == [src \in Registry, dst \in Registry |-> ComputedDistance(src, dst)]

RoutePoints(src, dst) == PointsTable[src, dst]

Haversine(src, dst) == DistanceTable[src, dst]

\* Number.prototype.toFixed(1) of a distance, as a string.
ToFixed1(x) ==
    LET tenths == Round(10 * x, KM)
    IN  ToString(tenths \div 10) \o "." \o ToString(tenths % 10)

\* durationHours = distance / 60; hours = Math.floor(durationHours)
Hours(distance) == Floor(distance, 60 * KM)

\* The mutant of Minutes that truncates instead of rounding.
MinutesTruncated(distance) == {Floor(distance - Hours(distance) * 60 * KM, KM)}

\* minutes = Math.round((durationHours - hours) * 60), the values it can
\* take.  In exact arithmetic (durationHours - hours) * 60 is
\* distance - 60 * hours; the double the code rounds is within a few units
\* in the last place of it, so that a remainder exactly half way between
\* two integers is rounded to either of them, and every other remainder to
\* the nearest integer.
Minutes(distance) ==
    LET remainder == distance - Hours(distance) * 60 * KM
    IN  IF 2 * (remainder % KM) = KM
        THEN {Floor(remainder, KM), Floor(remainder, KM) + 1}
        ELSE {Round(remainder, KM)}

\* hours > 0 ? `${hours}h ${minutes}m` : `${minutes} min`
DurationLabel(distance, minutes) ==
    IF Hours(distance) > 0
    THEN ToString(Hours(distance)) \o "h " \o ToString(minutes) \o "m"
    ELSE ToString(minutes) \o " min"

\* The value handed to setRouteInfo.
RouteInfo(distance, minutes) ==
    [distance |-> ToFixed1(distance) \o " km",
     duration |-> DurationLabel(distance, minutes)]

(***************************************************************************)
(* State                                                                   *)
(***************************************************************************)
VARIABLES
    source,            \* Index: useState<Location | null>
    destination,       \* Index: useState<Location | null>
    route,             \* Index: useState<[number, number][] | null>
    selectedLocation,  \* Index: useState<{lat, lng} | null>
    isCalculating,     \* AppSidebar: useState(false)
    routeInfo,         \* AppSidebar: useState<{distance, duration} | null>
    pending,           \* calculateRoute activations awaiting their timer, oldest
                       \* first, each with the source and destination it closed over
    calcPromise,       \* the promise of the latest calculateRoute call
    distance,          \* calculateRoute's local `distance` as last computed,
                       \* [value |-> d], or NULL before the first
    query,             \* LocationSearch: useState(value?.name || ''), per box
    isOpen,            \* LocationSearch: useState(false), per box
    blurTimers,        \* onBlur timeouts not yet fired, per box
    focused,           \* the box whose input has the focus, or NoFocus
    markersRef,        \* APMap: the markers the marker effect drew
    routeLayerRef,     \* APMap: the polyline the route effect drew, or NULL
    mapLayers,         \* the layers on the Leaflet map, a bag
    viewport,          \* the last viewport command applied to the Leaflet map
    fitView            \* the last viewport command of the FitBounds component

indexVars == <<source, destination, route, selectedLocation>>
sidebarVars == <<isCalculating, routeInfo, pending, calcPromise, distance>>
searchVars == <<query, isOpen, blurTimers, focused>>
mapVars == <<markersRef, routeLayerRef, mapLayers, viewport, fitView>>
vars == <<indexVars, sidebarVars, searchVars, mapVars>>

Boxes == {"source", "destination"}

(***************************************************************************)
(* The map view                                                            *)
(***************************************************************************)
capitals == <<
    [lat |-> 165131 * (DEG \div BASE), lng |-> 805167 * (DEG \div BASE)],
    [lat |-> 176868 * (DEG \div BASE), lng |-> 832185 * (DEG \div BASE)],
    [lat |-> 158281 * (DEG \div BASE), lng |-> 780373 * (DEG \div BASE)] >>

apCenter == <<159129 * (DEG \div BASE), 797400 * (DEG \div BASE)>>

defaultZoom == 7

endpointZoom == 12

\* L.marker([lat, lng], {icon}) and L.polyline(route): a layer.
Marker(icon, p) == [icon |-> icon, at |-> <<p.lat, p.lng>>]

Polyline(r) == [icon |-> "polyline", at |-> r]

BagOfSeq(s) == [x \in Range(s) |-> Cardinality({i \in DOMAIN s : s[i] = x})]

\* L.latLngBounds(points): the smallest box around the points.
LatLngBounds(points) ==
    LET lats == {p[1] : p \in Range(points)}
        lngs == {p[2] : p \in Range(points)}
    IN  [south |-> CHOOSE x \in lats : \A y \in lats : x <= y,
         north |-> CHOOSE x \in lats : \A y \in lats : x >= y,
         west |-> CHOOSE x \in lngs : \A y \in lngs : x <= y,
         east |-> CHOOSE x \in lngs : \A y \in lngs : x >= y]

FitBoundsCmd(points) == [cmd |-> "fitBounds", arg |-> LatLngBounds(points)]

SetViewCmd(p, zoom) == [cmd |-> "setView", arg |-> <<<<p.lat, p.lng>>, zoom>>]

\* The state of the imperative map as one record, for the effects to thread.
MapState == [markersRef |-> markersRef, routeLayerRef |-> routeLayerRef,
             mapLayers |-> mapLayers, viewport |-> viewport]

\* The markers the marker effect adds, in the order it adds them.
NewMarkers(s, d, sel) ==
    (IF s # NULL THEN <<Marker("source", s)>> ELSE <<>>)
    \o (IF d # NULL THEN <<Marker("destination", d)>> ELSE <<>>)
    \o (IF sel # NULL /\ s = NULL /\ d = NULL THEN <<Marker("selected", sel)>> ELSE <<>>)

\* The mutant of ClearedMarkers that leaves the old markers on the map.
ClearedMarkersKept(m) == m.mapLayers

\* markersRef.current.forEach((marker) => marker.remove())
ClearedMarkers(m) == m.mapLayers (-) BagOfSeq(m.markersRef)

\* The viewport after the marker effect's "fit bounds to markers".
MarkerViewport(m, s, d) ==
    IF s # NULL /\ d # NULL
    THEN FitBoundsCmd(<<<<s.lat, s.lng>>, <<d.lat, d.lng>>>>)
    ELSE IF s # NULL THEN SetViewCmd(s, endpointZoom)
    ELSE IF d # NULL THEN SetViewCmd(d, endpointZoom)
    ELSE m.viewport

\* APMap: useEffect(..., [source, destination, selectedLocation, isMapReady])
MarkerEffect(m, s, d, sel) ==
    [markersRef |-> NewMarkers(s, d, sel),
     routeLayerRef |-> m.routeLayerRef,
     mapLayers |-> ClearedMarkers(m) (+) BagOfSeq(NewMarkers(s, d, sel)),
     viewport |-> MarkerViewport(m, s, d)]

\* APMap: useEffect(..., [route, isMapReady])
RouteEffect(m, r) ==
    LET removed == IF m.routeLayerRef # NULL
                   THEN m.mapLayers (-) SetToBag({m.routeLayerRef})
                   ELSE m.mapLayers
    IN  IF r # NoRoute /\ Len(r) > 0
        THEN [markersRef |-> m.markersRef,
              routeLayerRef |-> Polyline(r),
              mapLayers |-> removed (+) SetToBag({Polyline(r)}),
              viewport |-> FitBoundsCmd(r)]
        ELSE [markersRef |-> m.markersRef,
              routeLayerRef |-> NULL,
              mapLayers |-> removed,
              viewport |-> m.viewport]

\* FitBounds: useEffect(..., [source, destination, route, map])
FitBoundsEffect(view, s, d, r) ==
    IF r # NoRoute /\ Len(r) > 0 THEN FitBoundsCmd(r)
    ELSE IF s # NULL /\ d # NULL
    THEN FitBoundsCmd(<<<<s.lat, s.lng>>, <<d.lat, d.lng>>>>)
    ELSE IF s # NULL THEN SetViewCmd(s, endpointZoom)
    ELSE IF d # NULL THEN SetViewCmd(d, endpointZoom)
    ELSE view

\* The react-leaflet APMap: the layers its JSX renders for the props.
APMapChildren(s, d, sel, r) ==
    BagOfSeq([i \in DOMAIN capitals |-> Marker("capital", capitals[i])])
    (+) BagOfSeq(NewMarkers(s, d, sel))
    (+) (IF r # NoRoute /\ Len(r) > 0 THEN SetToBag({Polyline(r)}) ELSE EmptyBag)

\* A render of Index with the new state, and the effects that follow the
\* commit.  An effect runs when one of its dependencies is a new value:
\* a Location is an entry of popularLocations and keeps its identity, while
\* every handleMapClick and every handleRouteCalculate brings a new object
\* (selSet, routeSet).
Commit(s, d, sel, selSet, r, routeSet) ==
    LET m1 == IF s # source \/ d # destination \/ selSet
              THEN MarkerEffect(MapState, s, d, sel)
              ELSE MapState
        m2 == IF routeSet THEN RouteEffect(m1, r) ELSE m1
    IN  /\ source' = s
        /\ destination' = d
        /\ selectedLocation' = sel
        /\ route' = r
        /\ markersRef' = m2.markersRef
        /\ routeLayerRef' = m2.routeLayerRef
        /\ mapLayers' = m2.mapLayers
        /\ viewport' = m2.viewport
        /\ fitView' = IF s # source \/ d # destination \/ routeSet
                      THEN FitBoundsEffect(fitView, s, d, r)
                      ELSE fitView

(***************************************************************************)
(* Bounds and inputs                                                       *)
(***************************************************************************)
MaxQueryLen == 2
MaxBlurTimers == 1
MaxPending == 2
MaxDistance == 180

\* What is typed into a search box of the whole application.
AppQueries == {<< >>, <<"V", "i">>}

\* What is typed into the search box taken alone.
SearchAlphabet == {"a", "k", "K", "u"}

SearchQueries == UNION {[1..n -> SearchAlphabet] : n \in 0..MaxQueryLen}

\* Where the map is clicked.
MapPoints == {<<160000 * (DEG \div BASE), 800000 * (DEG \div BASE)>>}

\* The distances the duration label is computed for: every 0.1 km.
DistanceInputs == {k * (KM \div 10) : k \in 0..(10 * MaxDistance)}

(***************************************************************************)
(* LocationSearch                                                          *)
(***************************************************************************)
\* onChange of a box: onSourceChange = setSource, onDestinationChange =
\* setDestination.
OnChange(b, loc) ==
    Commit(IF b = "source" THEN loc ELSE source,
           IF b = "destination" THEN loc ELSE destination,
           selectedLocation, FALSE, route, FALSE)

handleSelect(b, location) ==
    /\ query' = [query EXCEPT ![b] = location.name]
    /\ OnChange(b, location)
    /\ isOpen' = [isOpen EXCEPT ![b] = FALSE]

handleInputChange(b, newQuery) ==
    /\ query' = [query EXCEPT ![b] = newQuery]
    /\ isOpen' = [isOpen EXCEPT ![b] = Len(newQuery) > 0]
    /\ IF newQuery = << >>
       THEN OnChange(b, NULL)
       ELSE UNCHANGED <<indexVars, mapVars>>

handleClear(b) ==
    /\ query' = [query EXCEPT ![b] = << >>]
    /\ OnChange(b, NULL)
    /\ isOpen' = [isOpen EXCEPT ![b] = FALSE]

\* The mutant of onFocus that opens the dropdown whatever the query.
onFocusAlways(b) == isOpen' = [isOpen EXCEPT ![b] = TRUE]

\* onFocus={() => query.length > 0 && setIsOpen(true)}
onFocus(b) == isOpen' = [isOpen EXCEPT ![b] = IF Len(query[b]) > 0 THEN TRUE ELSE @]

\* onBlur={() => setTimeout(() => setIsOpen(false), 200)}: the input that
\* has the focus loses it and starts its timer.
onBlur ==
    blurTimers' = [b \in Boxes |-> IF focused = b THEN blurTimers[b] + 1 ELSE blurTimers[b]]

CanBlur == IF focused = NoFocus THEN TRUE ELSE blurTimers[focused] < MaxBlurTimers

\* A click on anything but a search input takes the focus from the input.
ClickOutsideInput ==
    /\ CanBlur
    /\ onBlur
    /\ focused' = NoFocus

\* The suggestion list is rendered: isOpen && filteredLocations.length > 0
SuggestionsShown(b) == isOpen[b] /\ Len(filteredLocations(query[b])) > 0

\* The "No locations found" panel is rendered.
NoResultsShown(b) ==
    isOpen[b] /\ Len(filteredLocations(query[b])) = 0 /\ Len(query[b]) > 0

Focus(b) ==
    /\ focused # b
    /\ CanBlur
    /\ onBlur
    /\ focused' = b
    /\ onFocus(b)
    /\ UNCHANGED <<query, indexVars, sidebarVars, mapVars>>

Blur ==
    /\ focused # NoFocus
    /\ ClickOutsideInput
    /\ UNCHANGED <<query, isOpen, indexVars, sidebarVars, mapVars>>

BlurTimeout(b) ==
    /\ blurTimers[b] > 0
    /\ blurTimers' = [blurTimers EXCEPT ![b] = @ - 1]
    /\ isOpen' = [isOpen EXCEPT ![b] = FALSE]
    /\ UNCHANGED <<query, focused, indexVars, sidebarVars, mapVars>>

Type(b, newQuery) ==
    /\ focused = b
    /\ newQuery # query[b]
    /\ handleInputChange(b, newQuery)
    /\ UNCHANGED <<blurTimers, focused, sidebarVars>>

\* A click on the i-th button of the suggestion list.
ClickSuggestion(b) ==
    /\ SuggestionsShown(b)
    /\ ClickOutsideInput
    /\ \E i \in DOMAIN filteredLocations(query[b]) :
          handleSelect(b, filteredLocations(query[b])[i])
    /\ UNCHANGED sidebarVars

\* The clear button is rendered when query is not empty.
ClickClear(b) ==
    /\ query[b] # << >>
    /\ ClickOutsideInput
    /\ handleClear(b)
    /\ UNCHANGED sidebarVars

(***************************************************************************)
(* AppSidebar                                                              *)
(***************************************************************************)
\* The mutant of calculateRoute without its first line, the early return.
calculateRouteUnguarded ==
    /\ isCalculating' = TRUE
    /\ pending' = Append(pending, [source |-> source, destination |-> destination])
    /\ calcPromise' = "pending"
    /\ UNCHANGED <<routeInfo, distance, indexVars, mapVars>>

\* The part of calculateRoute before the await.
calculateRoute ==
    IF source = NULL \/ destination = NULL
    THEN /\ calcPromise' = "fulfilled"
         /\ UNCHANGED <<isCalculating, routeInfo, pending, distance, indexVars, mapVars>>
    ELSE /\ isCalculating' = TRUE
         /\ pending' = Append(pending, [source |-> source, destination |-> destination])
         /\ calcPromise' = "pending"
         /\ UNCHANGED <<routeInfo, distance, indexVars, mapVars>>

\* Index.handleRouteCalculate
handleRouteCalculate(newRoute) ==
    Commit(source, destination, selectedLocation, FALSE, newRoute, TRUE)

\* The mutant of calculateRouteResume that never calls setIsCalculating(false).
calculateRouteResumeStuck(c) ==
    /\ distance' = [value |-> Haversine(c.source, c.destination)]
    /\ \E minutes \in Minutes(Haversine(c.source, c.destination)) :
          routeInfo' = RouteInfo(Haversine(c.source, c.destination), minutes)
    /\ handleRouteCalculate(RoutePoints(c.source, c.destination))
    /\ UNCHANGED <<isCalculating, calcPromise>>

\* The part of calculateRoute after the await, for the activation c.  With
\* a null endpoint the read of source.lat throws and the promise rejects.
calculateRouteResume(c) ==
    IF c.source = NULL \/ c.destination = NULL
    THEN /\ calcPromise' = "rejected"
         /\ UNCHANGED <<isCalculating, routeInfo, distance, indexVars, mapVars>>
    ELSE /\ distance' = [value |-> Haversine(c.source, c.destination)]
         /\ \E minutes \in Minutes(Haversine(c.source, c.destination)) :
               routeInfo' = RouteInfo(Haversine(c.source, c.destination), minutes)
         /\ handleRouteCalculate(RoutePoints(c.source, c.destination))
         /\ isCalculating' = FALSE
         /\ calcPromise' = IF Len(pending) = 1 THEN "fulfilled" ELSE calcPromise

\* The mutant of SwappedEndpoints without tempSource: the destination is
\* set from the source just overwritten.
SwappedEndpointsNoTemp(s, d) == <<d, d>>

\* tempSource = source; onSourceChange(destination);
\* onDestinationChange(tempSource): the new <<source, destination>>.
SwappedEndpoints(s, d) == <<d, s>>

swapLocations ==
    /\ Commit(SwappedEndpoints(source, destination)[1],
              SwappedEndpoints(source, destination)[2],
              selectedLocation, FALSE, route, FALSE)
    /\ routeInfo' = NULL
    /\ UNCHANGED <<isCalculating, pending, calcPromise, distance>>

\* The mutant of CalculateEnabled that forgets isCalculating.
CalculateEnabledWhileCalculating == ~(source = NULL \/ destination = NULL)

\* Calculate Route button: disabled={!source || !destination || isCalculating}
CalculateEnabled == ~(source = NULL \/ destination = NULL \/ isCalculating)

\* Swap button: disabled={!source && !destination}
SwapEnabled == ~(source = NULL /\ destination = NULL)

ClickCalculate ==
    /\ CalculateEnabled
    /\ Len(pending) < MaxPending
    /\ ClickOutsideInput
    /\ calculateRoute
    /\ UNCHANGED <<query, isOpen>>

\* The timer of the oldest waiting activation fires.
TimerFires ==
    /\ pending # << >>
    /\ calculateRouteResume(Head(pending))
    /\ pending' = Tail(pending)
    /\ UNCHANGED searchVars

ClickSwap ==
    /\ SwapEnabled
    /\ ClickOutsideInput
    /\ swapLocations
    /\ UNCHANGED <<query, isOpen>>

\* calculateRoute called with an endpoint absent, as a caller other than the
\* disabled button would.
InvokeWhileAbsent ==
    /\ ~(source # NULL /\ destination # NULL)
    /\ Len(pending) < MaxPending
    /\ calculateRoute
    /\ UNCHANGED searchVars

\* The duration label of the distance just computed.
FormatRouteInfo ==
    /\ distance # NULL
    /\ routeInfo = NULL
    /\ \E minutes \in Minutes(distance.value) :
          routeInfo' = RouteInfo(distance.value, minutes)
    /\ UNCHANGED <<indexVars, isCalculating, pending, calcPromise, distance, searchVars, mapVars>>

(***************************************************************************)
(* Index                                                                   *)
(***************************************************************************)
handleMapClick(p) ==
    Commit(source, destination, [lat |-> p[1], lng |-> p[2]], TRUE, route, FALSE)

MapClick(p) ==
    /\ ClickOutsideInput
    /\ handleMapClick(p)
    /\ UNCHANGED <<query, isOpen, sidebarVars>>

(***************************************************************************)
(* Specifications                                                          *)
(***************************************************************************)
\* The application once mounted: nothing chosen, the map showing the capitals.
Init ==
    /\ source = NULL
    /\ destination = NULL
    /\ route = NoRoute
    /\ selectedLocation = NULL
    /\ isCalculating = FALSE
    /\ routeInfo = NULL
    /\ pending = << >>
    /\ calcPromise = "none"
    /\ distance = NULL
    /\ query = [b \in Boxes |-> << >>]
    /\ isOpen = [b \in Boxes |-> FALSE]
    /\ blurTimers = [b \in Boxes |-> 0]
    /\ focused = NoFocus
    /\ markersRef = << >>
    /\ routeLayerRef = NULL
    /\ mapLayers = BagOfSeq([i \in DOMAIN capitals |-> Marker("capital", capitals[i])])
    /\ viewport = [cmd |-> "init", arg |-> <<apCenter, defaultZoom>>]
    /\ fitView = [cmd |-> "init", arg |-> <<apCenter, defaultZoom>>]

\* No onBlur timeout is waiting.
Quiet == \A b \in Boxes : blurTimers[b] = 0

\* The whole application, with a user who acts no sooner than 200 ms after
\* an input lost the focus: the onBlur timeout fires before the next user
\* action, while the route timer fires at any time.
Next ==
    \/ \E b \in Boxes : Quiet /\ Focus(b)
    \/ Quiet /\ Blur
    \/ \E b \in Boxes : \E q \in AppQueries : Quiet /\ Type(b, q)
    \/ \E b \in Boxes : Quiet /\ ClickSuggestion(b)
    \/ \E b \in Boxes : Quiet /\ ClickClear(b)
    \/ Quiet /\ ClickCalculate
    \/ Quiet /\ ClickSwap
    \/ \E p \in MapPoints : Quiet /\ MapClick(p)
    \/ \E b \in Boxes : BlurTimeout(b)
    \/ TimerFires

Spec == Init /\ [][Next]_vars

\* One search box taken alone, its events in any order: the start box, with
\* every query of SearchQueries typed into it.
NextSearch ==
    \/ Focus("source")
    \/ Blur
    \/ BlurTimeout("source")
    \/ \E q \in SearchQueries : Type("source", q)
    \/ ClickSuggestion("source")
    \/ ClickClear("source")

SpecSearch == Init /\ [][NextSearch]_vars

\* The application after a start and a destination were chosen from the
\* suggestions, both among the entries `among` of popularLocations.
InitChosen(among) ==
    \E src \in among : \E dst \in among :
        /\ source = src
        /\ destination = dst
        /\ route = NoRoute
        /\ selectedLocation = NULL
        /\ isCalculating = FALSE
        /\ routeInfo = NULL
        /\ pending = << >>
        /\ calcPromise = "none"
        /\ distance = NULL
        /\ query = [b \in Boxes |-> IF b = "source" THEN src.name ELSE dst.name]
        /\ isOpen = [b \in Boxes |-> FALSE]
        /\ blurTimers = [b \in Boxes |-> 0]
        /\ focused = NoFocus
        /\ markersRef = NewMarkers(src, dst, NULL)
        /\ routeLayerRef = NULL
        /\ mapLayers = APMapChildren(src, dst, NULL, NoRoute)
        /\ viewport = FitBoundsCmd(<<<<src.lat, src.lng>>, <<dst.lat, dst.lng>>>>)
        /\ fitView = FitBoundsCmd(<<<<src.lat, src.lng>>, <<dst.lat, dst.lng>>>>)

InitRoute == InitChosen(Registry)

\* The route generator on every pair: the button is clicked, the timer fires.
NextRoute ==
    \/ ClickCalculate
    \/ TimerFires

SpecRoute == InitRoute /\ [][NextRoute]_vars

\* calculateRoute at the point where `distance` has just been computed, for
\* every distance of DistanceInputs.
InitDuration ==
    \E d \in DistanceInputs :
        /\ source = NULL
        /\ destination = NULL
        /\ route = NoRoute
        /\ selectedLocation = NULL
        /\ isCalculating = FALSE
        /\ routeInfo = NULL
        /\ pending = << >>
        /\ calcPromise = "none"
        /\ distance = [value |-> d]
        /\ query = [b \in Boxes |-> << >>]
        /\ isOpen = [b \in Boxes |-> FALSE]
        /\ blurTimers = [b \in Boxes |-> 0]
        /\ focused = NoFocus
        /\ markersRef = << >>
        /\ routeLayerRef = NULL
        /\ mapLayers = APMapChildren(NULL, NULL, NULL, NoRoute)
        /\ viewport = [cmd |-> "init", arg |-> <<apCenter, defaultZoom>>]
        /\ fitView = [cmd |-> "init", arg |-> <<apCenter, defaultZoom>>]

NextDuration == FormatRouteInfo

SpecDuration == InitDuration /\ [][NextDuration]_vars

\* The sidebar after two of the locations "Vi" suggests were chosen, with
\* calculateRoute also called while an endpoint is absent, as a caller
\* other than the disabled button would.
InitDirect == InitChosen(Range(filteredLocations(<<"V", "i">>)))

NextDirect ==
    \/ InvokeWhileAbsent
    \/ ClickCalculate
    \/ TimerFires
    \/ \E b \in Boxes : ClickClear(b)
    \/ ClickSwap

SpecDirect == InitDirect /\ [][NextDirect]_vars

(***************************************************************************)
(* Properties                                                              *)
(***************************************************************************)
\* The coordinates of a Location as a route point.
Coordinates(loc) == <<loc.lat, loc.lng>>

\* C1: under SpecRoute, for every source and destination of the registry,
\* the route handed to onRouteCalculate by a completed calculateRoute has
\* exactly 21 points, its first point is the source's coordinates, its last
\* point is the destination's coordinates, and the points come in the order
\* of the step index: the longitude of point i is the source's longitude
\* plus i/20 of the way to the destination's (to the rounding of one
\* micro-degree).
C1_RouteHas21PointsFromSourceToDestination ==
    route # NoRoute =>
        /\ Len(route) = 21
        /\ route[1] = Coordinates(source)
        /\ route[21] = Coordinates(destination)
        /\ \A i \in 0..20 :
              Abs(20 * (route[i + 1][2] - source.lng)
                  - i * (destination.lng - source.lng)) <= 10

\* C1 witness: a route between two different places has been handed over,
\* and its 21st point is the destination.
C1_Witness ==
    /\ route # NoRoute
    /\ calcPromise = "fulfilled"
    /\ Coordinates(source) # Coordinates(destination)
    /\ Len(route) = 21
    /\ route[21] = Coordinates(destination)

\* C2 as stated: under SpecRoute, with source and destination at the same
\* coordinates the route is 21 equal points and the distance is 0.
C2_DegeneratePathOfEqualPoints ==
    (route # NoRoute /\ Coordinates(source) = Coordinates(destination)) =>
        /\ Len(route) = 21
        /\ \A i \in 1..21 : route[i] = route[1]
        /\ distance = [value |-> 0]

\* C2 amended: under SpecRoute, with source and destination at the same
\* coordinates A the route is 21 points on A's longitude, the first and the
\* last equal to A, whose latitudes rise to 0.2 degree north of A at the
\* middle point and come back symmetrically (every point between the first
\* and the last lies strictly north of A); the distance is 0, shown as
\* "0.0 km" and "0 min".
C2_DegeneratePathIsAnArc ==
    (route # NoRoute /\ Coordinates(source) = Coordinates(destination)) =>
        /\ Len(route) = 21
        /\ route[1] = Coordinates(source)
        /\ route[21] = Coordinates(source)
        /\ \A i \in 1..21 : route[i][2] = source.lng
        /\ \A i \in 2..20 : route[i][1] > source.lat
        /\ \A i \in 1..21 : route[i][1] = route[22 - i][1]
        /\ \A i \in 1..10 : route[i][1] < route[i + 1][1]
        /\ route[11][1] = source.lat + DEG \div 5
        /\ distance = [value |-> 0]
        /\ routeInfo = [distance |-> "0.0 km", duration |-> "0 min"]

\* C2 witness: a route from a place to itself has been handed over, and its
\* middle point is not the place.
C2_Witness ==
    /\ route # NoRoute
    /\ source = destination
    /\ route[11] # Coordinates(source)
    /\ distance = [value |-> 0]

\* Two characters are the same letter, whatever their case.
SameLetter(a, b) ==
    \/ a = b
    \/ \E n \in DOMAIN UpperCase : {a, b} = {UpperCase[n], LowerCase[n]}

\* q occurs in name as a run of consecutive characters, case ignored.
ContainsIgnoringCase(name, q) ==
    \E k \in 0..(Len(name) - Len(q)) :
        \A j \in 1..Len(q) : SameLetter(name[k + j], q[j])

\* The indexes of the registry entries whose name contains q, case ignored.
MatchingIndexes(q) ==
    {i \in DOMAIN popularLocations : ContainsIgnoringCase(popularLocations[i].name, q)}

\* C3: under SpecSearch, for the query q of the box, the filtered list is
\* exactly the registry entries whose lower-cased name contains lower-cased
\* q, in registry order: its k-th element is the registry entry at the k-th
\* smallest matching index, and it has as many elements as matching indexes.
C3_FilterIsExactAndOrdered ==
    LET q == query["source"]
        found == filteredLocations(q)
        matching == MatchingIndexes(q)
    IN  /\ Len(found) = Cardinality(matching)
        /\ \A k \in DOMAIN found :
              \E i \in matching :
                  /\ Cardinality({j \in matching : j < i}) = k - 1
                  /\ found[k] = popularLocations[i]

\* C3 witness: "Ka" has been typed, and the list shown is Kakinada, Kadapa,
\* Srikakulam.
C3_Witness ==
    /\ query["source"] = <<"K", "a">>
    /\ SuggestionsShown("source")
    /\ filteredLocations(query["source"])
          = <<popularLocations[6], popularLocations[10], popularLocations[14]>>

\* The layers on the map with the icon `icon`.
Drawn(icon) == {x \in BagToSet(mapLayers) : x.icon = icon}

\* C4: under Spec, after the effects of every change have run, the map
\* holds each layer once, and holds exactly: the three capital markers, a
\* source marker at source iff source is set, a destination marker at
\* destination iff destination is set, a selected-location marker at
\* selectedLocation iff it is set while source and destination are both
\* unset, and one polyline of the current route iff the route is not empty;
\* the declarative map renders the same layers.
C4_MapDrawnFromCurrentState ==
    /\ \A x \in BagToSet(mapLayers) : CopiesIn(x, mapLayers) = 1
    /\ \A x \in BagToSet(mapLayers) :
          x.icon \in {"capital", "source", "destination", "selected", "polyline"}
    /\ Drawn("capital") = {[icon |-> "capital", at |-> Coordinates(capitals[i])] :
                              i \in DOMAIN capitals}
    /\ Drawn("source") = IF source # NULL
                         THEN {[icon |-> "source", at |-> Coordinates(source)]}
                         ELSE {}
    /\ Drawn("destination") = IF destination # NULL
                              THEN {[icon |-> "destination", at |-> Coordinates(destination)]}
                              ELSE {}
    /\ Drawn("selected") = IF selectedLocation # NULL /\ source = NULL /\ destination = NULL
                           THEN {[icon |-> "selected", at |-> Coordinates(selectedLocation)]}
                           ELSE {}
    /\ Drawn("polyline") = IF route # NoRoute
                           THEN {[icon |-> "polyline", at |-> route]}
                           ELSE {}
    /\ APMapChildren(source, destination, selectedLocation, route) = mapLayers

\* C4 witness: a route is drawn and the source was cleared after a click on
\* the map: the source marker and the selected-location marker are gone,
\* the destination marker and the polyline are there.
C4_Witness ==
    /\ route # NoRoute
    /\ source = NULL
    /\ destination # NULL
    /\ selectedLocation # NULL
    /\ Drawn("source") = {}
    /\ Drawn("selected") = {}
    /\ Cardinality(Drawn("destination")) = 1
    /\ Cardinality(Drawn("polyline")) = 1

\* The viewport C5 describes for the current state, or NULL when it
\* describes none (no route and no endpoint).
ViewportByPriority ==
    IF route # NoRoute THEN FitBoundsCmd(route)
    ELSE IF source # NULL /\ destination # NULL
    THEN FitBoundsCmd(<<Coordinates(source), Coordinates(destination)>>)
    ELSE IF source # NULL THEN SetViewCmd(source, endpointZoom)
    ELSE IF destination # NULL THEN SetViewCmd(destination, endpointZoom)
    ELSE NULL

\* C5 as stated: under Spec, after every change the last viewport command
\* applied to the map is the fit to the route if a route is present,
\* otherwise the fit to the two endpoints if both are set, otherwise the
\* view centred on the one endpoint that is set.
C5_ViewportFollowsPriority ==
    ViewportByPriority # NULL => viewport = ViewportByPriority

\* C5 witness: a route is present and the last viewport command of the map
\* is a view centred on the destination.
C5_Witness ==
    /\ route # NoRoute
    /\ source = NULL
    /\ destination # NULL
    /\ viewport = SetViewCmd(destination, endpointZoom)
    /\ fitView = FitBoundsCmd(route)

\* C6: under Spec, for every sequence of clicks, selections, clears and
\* swaps, at most one calculateRoute is between its start and its
\* completion, and isCalculating is true exactly while one is.
C6_AtMostOneComputationInFlight ==
    /\ Len(pending) <= 1
    /\ isCalculating <=> Len(pending) = 1

\* C6 witness: a computation is in flight while the endpoints the button
\* needs are both set and the user has since swapped them.
C6_Witness ==
    /\ isCalculating
    /\ Len(pending) = 1
    /\ source # NULL
    /\ destination # NULL
    /\ pending[1].source = destination
    /\ pending[1].source # source

\* C7: under SpecDirect, every call of calculateRoute made while source or
\* destination is absent is a silent no-op: it leaves isCalculating,
\* routeInfo, the computed distance, the route and the map as they were,
\* starts no timer (no activation is added to pending), calls
\* onRouteCalculate never (route and map unchanged), and its promise is
\* fulfilled; and no promise is ever rejected, that is, no error is raised
\* by a call or by a timer.
C7_AbsentEndpointIsSilentNoOp ==
    /\ [][InvokeWhileAbsent =>
            /\ UNCHANGED <<isCalculating, routeInfo, distance, pending>>
            /\ UNCHANGED <<indexVars, mapVars>>
            /\ calcPromise' = "fulfilled"]_vars
    /\ [](calcPromise # "rejected")
    /\ [](\A k \in DOMAIN pending :
            pending[k].source # NULL /\ pending[k].destination # NULL)

\* C7 witness: calculateRoute was called with the source absent and
\* returned, in a state where no timer has ever completed: nothing is being
\* calculated, nothing waits, no route and no route summary exist.
C7_Witness ==
    /\ calcPromise = "fulfilled"
    /\ source = NULL
    /\ route = NoRoute
    /\ routeInfo = NULL
    /\ ~isCalculating
    /\ pending = << >>

\* C8: under SpecDuration, for every distance d the duration label is built
\* from hours = floor(d / 60) and minutes = the integer nearest to the rest
\* of d / 60 hours counted in minutes, as "<hours>h <minutes>m" when d is at
\* least 60 km (one hour) and "<minutes> min" otherwise; 30 km gives
\* "30 min" and 150 km gives "2h 30m".
C8_DurationLabelFormat ==
    routeInfo # NULL =>
        LET d == distance.value
        IN  /\ \E h \in 0..(MaxDistance \div 60 + 1) : \E m \in 0..60 :
                  /\ h * 60 * KM <= d
                  /\ d < (h + 1) * 60 * KM
                  /\ 2 * Abs(d - h * 60 * KM - m * KM) <= KM
                  /\ routeInfo.duration =
                        IF d >= 60 * KM
                        THEN ToString(h) \o "h " \o ToString(m) \o "m"
                        ELSE ToString(m) \o " min"
            /\ d = 30 * KM => routeInfo.duration = "30 min"
            /\ d = 150 * KM => routeInfo.duration = "2h 30m"

\* C8 witness: the label of 150 km has been computed and is "2h 30m".
C8_Witness ==
    /\ distance = [value |-> 150 * KM]
    /\ routeInfo # NULL
    /\ routeInfo.duration = "2h 30m"

\* C9: under SpecSearch, in every state of the search box reached by typing,
\* focus, blur, the blur timeout, a click on a suggestion and a click on the
\* clear button, an empty query shows neither the suggestion list nor the
\* "No locations found" panel.
C9_EmptyQueryHidesSuggestions ==
    \A b \in Boxes :
        query[b] = << >> => ~SuggestionsShown(b) /\ ~NoResultsShown(b)

\* C9 witness: the box, its query empty, got the focus back while the
\* timeout of its last blur is still waiting, and shows no suggestion.
C9_Witness ==
    /\ query["source"] = << >>
    /\ focused = "source"
    /\ blurTimers["source"] > 0
    /\ ~isOpen["source"]
    /\ ~SuggestionsShown("source")

Visakhapatnam == popularLocations[1]

Vijayawada == popularLocations[2]

\* C10 as stated: under SpecRoute, for Visakhapatnam to Vijayawada the
\* distance reported is about 291 km (291 km to the nearest km) and the
\* duration label is "4h 51m".
C10_About291KmAnd4h51m ==
    (routeInfo # NULL /\ source = Visakhapatnam /\ destination = Vijayawada) =>
        /\ Round(distance.value, KM) = 291
        /\ routeInfo.duration = "4h 51m"

\* C10 amended: under SpecRoute, for Visakhapatnam (17.6868, 83.2185) to
\* Vijayawada (16.5062, 80.6480) the distance reported is about 303 km,
\* shown as "303.1 km", and the duration label is "5h 3m".
C10_About303KmAnd5h3m ==
    (routeInfo # NULL /\ source = Visakhapatnam /\ destination = Vijayawada) =>
        /\ Coordinates(source) = <<17686800, 83218500>>
        /\ Coordinates(destination) = <<16506200, 80648000>>
        /\ Round(distance.value, KM) = 303
        /\ routeInfo = [distance |-> "303.1 km", duration |-> "5h 3m"]

\* C10 witness: the route from Visakhapatnam to Vijayawada has been
\* calculated and its summary is shown.
C10_Witness ==
    /\ source = Visakhapatnam
    /\ destination = Vijayawada
    /\ routeInfo # NULL
    /\ route # NoRoute
    /\ ~isCalculating

\* The step of a timer that fires, by what it does to pending: it takes the
\* oldest activation out.  TimerFires is the only action that shortens
\* pending, and it is enabled exactly when pending is not empty, so that
\* the steps of TimerFired are the steps of TimerFires.
TimerFired == pending # << >> /\ pending' = Tail(pending)

\* The whole application with the guarantee the event loop gives a timer:
\* a timeout that is waiting fires.
SpecLive == Init /\ [][Next]_vars /\ WF_pending(TimerFired)

\* C11: under SpecLive, every calculation that starts completes: whenever
\* isCalculating is true it becomes false again, whatever is selected,
\* cleared or swapped meanwhile.  The step that completes a calculation (the
\* one that takes its activation out of pending) takes out exactly one
\* activation, sets isCalculating to false, sets routeInfo, and hands
\* the route of that activation to onRouteCalculate; no other step hands
\* over a route, so that each calculation calls onRouteCalculate once.
C11_StartedCalculationCompletes ==
    /\ isCalculating ~> ~isCalculating
    /\ [][Len(pending') < Len(pending) =>
            /\ Len(pending') = Len(pending) - 1
            /\ ~isCalculating'
            /\ routeInfo' # NULL
            /\ route' = RoutePoints(pending[1].source, pending[1].destination)
            /\ routeLayerRef' = Polyline(route')]_vars
    /\ [][Len(pending') >= Len(pending) =>
            UNCHANGED <<route, routeLayerRef>>]_vars

\* C11 witness: a calculation has completed after the endpoints were
\* changed during its delay: the summary is shown and the route starts at a
\* place that is no longer the source.
C11_Witness ==
    /\ ~isCalculating
    /\ pending = << >>
    /\ routeInfo # NULL
    /\ route # NoRoute
    /\ source # NULL
    /\ route[1] # Coordinates(source)

\* C12: under Spec, every click on the swap button leaves source equal to
\* the previous destination, destination equal to the previous source
\* (also when one of them is null) and routeInfo null, and happens only
\* when not both endpoints are null; in every state, swapping the endpoints
\* twice gives the pair back, and with an endpoint set (and no blur timeout
\* waiting) the swap button can be clicked.
C12_SwapExchangesEndpoints ==
    /\ [][ClickSwap =>
            /\ source' = destination
            /\ destination' = source
            /\ routeInfo' = NULL
            /\ ~(source = NULL /\ destination = NULL)]_vars
    /\ [](LET once == SwappedEndpoints(source, destination)
          IN  SwappedEndpoints(once[1], once[2]) = <<source, destination>>)
    /\ []((Quiet /\ ~(source = NULL /\ destination = NULL)) => ENABLED ClickSwap)

\* C12 witness: the endpoints were swapped while only the source was set:
\* the source is null and the destination is the place whose name the
\* start box still shows.
C12_Witness ==
    /\ source = NULL
    /\ destination = Visakhapatnam
    /\ query["source"] = Visakhapatnam.name
    /\ query["destination"] = << >>
    /\ routeInfo = NULL

\* C13 as stated: under Spec, the step that completes a calculation
\* publishes the route and the summary of the source and the destination of
\* that moment: both are set, the route handed over is the route between
\* them, and routeInfo is the summary of the distance between them.
C13_CompletionUsesCurrentEndpoints ==
    [][Len(pending') < Len(pending) =>
          /\ source # NULL
          /\ destination # NULL
          /\ route' = RoutePoints(source, destination)
          /\ \E minutes \in Minutes(Haversine(source, destination)) :
                routeInfo' = RouteInfo(Haversine(source, destination), minutes)]_vars

\* C13 witness: a calculation has completed after the swap that followed
\* its start: each box still shows the name of the other endpoint, the
\* summary is shown, and the route runs from the destination to the source.
C13_Witness ==
    /\ source # NULL
    /\ destination # NULL
    /\ source # destination
    /\ query["source"] = destination.name
    /\ query["destination"] = source.name
    /\ routeInfo # NULL
    /\ route # NoRoute
    /\ route[1] = Coordinates(destination)
    /\ route[21] = Coordinates(source)

\* C14 as stated: under Spec, in every state where a route polyline is on
\* the map, source and destination are both set and the polyline's first
\* and last points are the coordinates of the current source and of the
\* current destination.
C14_DisplayedRouteJoinsCurrentEndpoints ==
    \A line \in Drawn("polyline") :
        /\ source # NULL
        /\ destination # NULL
        /\ line.at[1] = Coordinates(source)
        /\ line.at[Len(line.at)] = Coordinates(destination)

\* C14 witness: with no calculation waiting, both boxes have been cleared
\* and the polyline of the last route is still on the map.
C14_Witness ==
    /\ source = NULL
    /\ destination = NULL
    /\ pending = << >>
    /\ route # NoRoute
    /\ Drawn("polyline") = {Polyline(route)}

\* The location a search box is bound to: its `value` prop.
BoundValue(b) == IF b = "source" THEN source ELSE destination

\* C15 as stated: under Spec, in every state, a search box bound to a
\* location shows that location's name as its text.
C15_BoxShowsBoundLocationName ==
    \A b \in Boxes :
        BoundValue(b) # NULL => query[b] = BoundValue(b).name

\* C15 witness: after a swap the start box is bound to Vijayawada and
\* shows "Visakhapatnam", the destination box is bound to Visakhapatnam and
\* shows "Vijayawada".
C15_Witness ==
    /\ source = Vijayawada
    /\ destination = Visakhapatnam
    /\ query["source"] = Visakhapatnam.name
    /\ query["destination"] = Vijayawada.name

=============================================================================
